---- MODULE Spec2Model ----
(***************************************************************************)
(* The summarization core of services/summarization_service.py as a state  *)
(* machine: one call of an entry point, from the caller's call to the      *)
(* returned (summary, word_count) pair or the exception that reaches the   *)
(* caller, and on to the string an MCP tool of                             *)
(* mcp_servers/mcp_server_docdb_summarization.py returns when the call is  *)
(* the tool's.  Text is a TLA+ string; the tokenizer, the chunker, the     *)
(* language detector and the completion service are external              *)
(* collaborators, modelled as nondeterministic choices over their outputs. *)
(* A second specification, StreamSpec, follows the requests served by the  *)
(* streamer objects of services/streaming_service.py.                      *)
(***************************************************************************)
EXTENDS Integers, Sequences, FiniteSets, TLC

VARIABLES
    world,                \* which collaborators vary in this call (see Init)
    op,                   \* the entry point the caller invoked
    pc,                   \* where the entry coroutine stands
    wc_text,              \* summarize_text_with_word_count: argument text
    num_words,            \* summarize_text_with_word_count: argument num_words
    arg_text,             \* summarize_text_with_detail_level: argument text
    summarization_level,  \* summarize_text_with_detail_level: argument (a string)
    further_instruction,  \* argument: <<>> is None, <<s>> is the string s
    text,                 \* the local text after process_markdown_string
    summ_level_enum,      \* the resolved SummarizationLevelEnum member
    detected,             \* what detector.detect_language_of did
    lang,                 \* <<>> is None, <<l>> the language string
    instruction,          \* further_instruction as _summarize_text receives it
    tokLen,               \* embed_len(text)
    max_token_per_chunk,
    bullet_num,
    chunks,               \* number of chunks chunk_text returned; chunk i is i
    tasks,                \* per chunk: the _summarize_chunk task
    gather,               \* the future asyncio.gather returned
    arrival,              \* the chunk calls' completions, in arrival order
    calls,                \* every completion call issued, in issue order
    chunk_summaries,      \* the list built from the gathered results
    merged_summary,       \* the local merged_summary of _summarize_text
    refined,              \* the refinement call's completion, << >> before it
    detail_result,        \* what summarize_text_with_detail_level left its caller
    outcome,              \* what reached the caller of the entry point
    detector_calls,       \* the texts given to detector.detect_language_of
    merged_summaries,     \* what _summarize_multiple_chunks returned
    tool_pc,              \* where the MCP tool stands; "direct" without a tool
    tool_result,          \* << >>, or <<s>> the string the MCP tool returned
    PROMPT_MAPPING,       \* the summarizer object's _PROMPT_MAPPING
    chunk_text_calls,     \* the calls of chunk_text: text, budget, chunks returned
    \* services/streaming_service.py
    queue,                \* RealTimeAgentStreamer.queue
    is_streaming,         \* RealTimeAgentStreamer.is_streaming
    stream_pc,            \* per request: where its stream generator stands
    agent_task,           \* per request: the task running astream_graph
    events,               \* per request: the events its stream has emitted
    current_session_id,   \* Mem0StreamingService.current_session_id
    current_user_message,
    current_agent_response,
    saved,                \* the save_conversation_memory calls, in order
    endpoint              \* the route of main.py the requests came by

vars == << world, op, pc, wc_text, num_words, arg_text, summarization_level,
           further_instruction, text, summ_level_enum, detected, lang,
           instruction, tokLen, max_token_per_chunk, bullet_num, chunks,
           tasks, gather, arrival, calls, chunk_summaries, merged_summary,
           refined, detail_result, outcome, detector_calls,
           merged_summaries, tool_pc, tool_result, PROMPT_MAPPING,
           chunk_text_calls, queue, is_streaming, stream_pc, agent_task,
           events, current_session_id, current_user_message,
           current_agent_response, saved, endpoint >>

\* The state of the summarization service and of the streaming service.
summVars == << world, op, pc, wc_text, num_words, arg_text, summarization_level,
               further_instruction, text, summ_level_enum, detected, lang,
               instruction, tokLen, max_token_per_chunk, bullet_num, chunks,
               tasks, gather, arrival, calls, chunk_summaries, merged_summary,
               refined, detail_result, outcome, detector_calls,
               merged_summaries, tool_pc, tool_result, PROMPT_MAPPING,
               chunk_text_calls >>

streamVars == << queue, is_streaming, stream_pc, agent_task, events,
                 current_session_id, current_user_message,
                 current_agent_response, saved, endpoint >>

(***************************************************************************)
(* Bounds of the model.                                                    *)
(***************************************************************************)
MaxChunks == 2

(***************************************************************************)
(* Strings.                                                                *)
(***************************************************************************)
Ch(s, i) == SubSeq(s, i, i)

Min(S) == CHOOSE x \in S : \A y \in S : x <= y

\* \p{Ll}, within the letters the model's texts use
LowerLetters ==
    { "a", "b", "c", "d", "e", "f", "g", "h", "i", "j", "k", "l", "m",
      "n", "o", "p", "q", "r", "s", "t", "u", "v", "w", "x", "y", "z" }

IsLower(c) == c \in LowerLetters

\* str.upper() of one character
UpperCh(c) ==
    CASE c = "a" -> "A" [] c = "b" -> "B" [] c = "c" -> "C" [] c = "d" -> "D"
      [] c = "e" -> "E" [] c = "f" -> "F" [] c = "g" -> "G" [] c = "h" -> "H"
      [] c = "i" -> "I" [] c = "j" -> "J" [] c = "k" -> "K" [] c = "l" -> "L"
      [] c = "m" -> "M" [] c = "n" -> "N" [] c = "o" -> "O" [] c = "p" -> "P"
      [] c = "q" -> "Q" [] c = "r" -> "R" [] c = "s" -> "S" [] c = "t" -> "T"
      [] c = "u" -> "U" [] c = "v" -> "V" [] c = "w" -> "W" [] c = "x" -> "X"
      [] c = "y" -> "Y" [] c = "z" -> "Z"
      [] OTHER -> c

RECURSIVE upper(_)
upper(s) == IF s = "" THEN "" ELSE UpperCh(Ch(s, 1)) \o upper(Tail(s))

\* sep.join(list)
RECURSIVE Join(_, _)
Join(sep, list) ==
    IF list = << >> THEN ""
    ELSE IF Len(list) = 1 THEN list[1]
    ELSE list[1] \o sep \o Join(sep, Tail(list))

\* "".join(list)
RECURSIVE Concat(_)
Concat(list) == IF list = << >> THEN "" ELSE list[1] \o Concat(Tail(list))

(***************************************************************************)
(* process_markdown_string: three regular-expression substitutions.        *)
(***************************************************************************)
\* The first position from p on where s has the character c; Len(s) + 1 if
\* there is none.  No pattern below matches before its first character.
Find(s, c, p) == Min({ j \in p..Len(s) : Ch(s, j) = c } \cup { Len(s) + 1 })

NoNewline(s, from, to) == \A j \in from..to : Ch(s, j) # "\n"

\* \*\*(.*?)\*\*  at position p: the lengths k of group 1 that match
BoldLengths(s, p) ==
    IF p + 1 <= Len(s) /\ Ch(s, p) = "*" /\ Ch(s, p + 1) = "*"
    THEN { k \in 0..Len(s) : /\ p + 3 + k <= Len(s)
                             /\ Ch(s, p + 2 + k) = "*"
                             /\ Ch(s, p + 3 + k) = "*"
                             /\ NoNewline(s, p + 2, p + 1 + k) }
    ELSE {}

\* \*(.*?)\*  at position p: the lengths k of group 2 that match
ItalicLengths(s, p) ==
    IF p <= Len(s) /\ Ch(s, p) = "*"
    THEN { k \in 0..Len(s) : /\ p + 1 + k <= Len(s)
                             /\ Ch(s, p + 1 + k) = "*"
                             /\ NoNewline(s, p + 1, p + k) }
    ELSE {}

\* re.sub(r"\*\*(.*?)\*\*|\*(.*?)\*", r"\1\2", s), scanning from position p
RECURSIVE StripEmphasisFrom(_, _)
StripEmphasisFrom(s, p) ==
    IF p > Len(s) THEN ""
    ELSE IF Ch(s, p) # "*"
    THEN SubSeq(s, p, Find(s, "*", p) - 1) \o StripEmphasisFrom(s, Find(s, "*", p))
    ELSE IF BoldLengths(s, p) # {}
    THEN LET k == Min(BoldLengths(s, p))
         IN  SubSeq(s, p + 2, p + 1 + k) \o StripEmphasisFrom(s, p + 4 + k)
    ELSE IF ItalicLengths(s, p) # {}
    THEN LET k == Min(ItalicLengths(s, p))
         IN  SubSeq(s, p + 1, p + k) \o StripEmphasisFrom(s, p + 2 + k)
    ELSE Ch(s, p) \o StripEmphasisFrom(s, p + 1)

StripEmphasis(s) == StripEmphasisFrom(s, 1)

RulePattern == "\n\n-----\n\n"

\* re.sub(r"\n\n-----\n\n", "\n", s), scanning from position p
RECURSIVE ReplaceRuleFrom(_, _)
ReplaceRuleFrom(s, p) ==
    IF p > Len(s) THEN ""
    ELSE IF Ch(s, p) # "\n"
    THEN SubSeq(s, p, Find(s, "\n", p) - 1) \o ReplaceRuleFrom(s, Find(s, "\n", p))
    ELSE IF /\ p + Len(RulePattern) - 1 <= Len(s)
            /\ SubSeq(s, p, p + Len(RulePattern) - 1) = RulePattern
    THEN "\n" \o ReplaceRuleFrom(s, p + Len(RulePattern))
    ELSE Ch(s, p) \o ReplaceRuleFrom(s, p + 1)

ReplaceRule(s) == ReplaceRuleFrom(s, 1)

\* (?<!\.)\n\n(?=[\p{Ll}\p{M}]) at position p
BreakMatches(s, p) ==
    /\ p + 2 <= Len(s)
    /\ Ch(s, p) = "\n"
    /\ Ch(s, p + 1) = "\n"
    /\ IsLower(Ch(s, p + 2))
    /\ (p = 1 \/ Ch(s, p - 1) # ".")

\* re.sub(r"(?<!\.)\n\n(?=[\p{Ll}\p{M}])", "\n", s), scanning from position p
RECURSIVE CollapseBreaksFrom(_, _)
CollapseBreaksFrom(s, p) ==
    IF p > Len(s) THEN ""
    ELSE IF Ch(s, p) # "\n"
    THEN SubSeq(s, p, Find(s, "\n", p) - 1) \o CollapseBreaksFrom(s, Find(s, "\n", p))
    ELSE IF BreakMatches(s, p)
    THEN "\n" \o CollapseBreaksFrom(s, p + 2)
    ELSE Ch(s, p) \o CollapseBreaksFrom(s, p + 1)

CollapseBreaks(s) == CollapseBreaksFrom(s, 1)

process_markdown_string(md_string) ==
    CollapseBreaks(ReplaceRule(StripEmphasis(md_string)))

(***************************************************************************)
(* The pure helpers of the service.                                        *)
(***************************************************************************)
IsSpace(c) == c \in {" ", "\n", "\t"}

\* str.split() with no argument: the maximal runs of non-whitespace
RECURSIVE SplitFrom(_, _)
SplitFrom(s, p) ==
    IF p > Len(s) THEN << >>
    ELSE IF IsSpace(Ch(s, p)) THEN SplitFrom(s, p + 1)
    ELSE LET e == Min({ j \in p..Len(s) : j = Len(s) \/ IsSpace(Ch(s, j + 1)) })
         IN  << SubSeq(s, p, e) >> \o SplitFrom(s, e + 1)

split(s) == SplitFrom(s, 1)

\* str.split(" "): the pieces between single spaces
count_word_single_space(t) ==
    Cardinality({ i \in 1..Len(t) : Ch(t, i) = " " }) + 1

count_word(t) == Len(split(t))

\* What detector.detect_language_of can do: return a Language member,
\* return None, or raise.
Detections == {"ENGLISH", "CZECH", "SLOVAK", "GERMAN", "None", "raise"}

\* What a call leaves its caller: a value, or an exception (exc # "").
Value(v) == [exc |-> "", value |-> v]
Raise(e) == [exc |-> e, value |-> ""]

\* detect_language_lingua without its except clause
detect_language_lingua_uncaught(language) ==
    IF language = "raise" THEN Raise("Exception")
    ELSE IF language \in {"None", "GERMAN", "ENGLISH"} THEN Value("English")
    ELSE IF language = "CZECH" THEN Value("Czech")
    ELSE Value("Slovakia")

\* The detector's wrapper refusing what it does not support
detect_language_lingua_value_error(language) ==
    IF language = "raise" THEN Value("English")
    ELSE IF language \in {"None", "GERMAN"} THEN Raise("ValueError")
    ELSE IF language = "ENGLISH" THEN Value("English")
    ELSE IF language = "CZECH" THEN Value("Czech")
    ELSE Value("Slovakia")

detect_language_lingua(language) ==
    IF language = "raise" THEN Value("English")
    ELSE IF language = "None" THEN Value("English")
    ELSE IF language \notin {"ENGLISH", "CZECH", "SLOVAK"} THEN Value("English")
    ELSE IF language = "ENGLISH" THEN Value("English")
    ELSE IF language = "CZECH" THEN Value("Czech")
    ELSE IF language = "SLOVAK" THEN Value("Slovakia")
    ELSE Value("English")

\* The members of SummarizationLevelEnum, by name.
SummarizationLevelEnum == {"CONCISE", "MEDIUM", "DETAILED"}

\* The lookup without .upper()
ResolveLevelCaseSensitive(level) ==
    IF level \in SummarizationLevelEnum THEN level ELSE "MEDIUM"

\* SummarizationLevelEnum[summarization_level.upper()], KeyError -> MEDIUM
ResolveLevel(level) ==
    IF upper(level) \in SummarizationLevelEnum THEN upper(level) ELSE "MEDIUM"

\* The thresholds compared with < in place of <=
WordCountLevelStrict(n) ==
    IF n < 50 THEN "concise" ELSE IF n < 150 THEN "medium" ELSE "detailed"

WordCountLevel(n) ==
    IF n <= 50 THEN "concise" ELSE IF n <= 150 THEN "medium" ELSE "detailed"

WordCountInstruction(n) ==
    "Create a summary with approximately " \o ToString(n) \o " words."

\* The tiers compared with <= in place of <
MaxTokenPerChunkInclusive(len) ==
    IF len <= 2048 THEN 512 ELSE IF len <= 4096 THEN 1024 ELSE 2048

MaxTokenPerChunk(len) ==
    IF len < 2048 THEN 512 ELSE IF len < 4096 THEN 1024 ELSE 2048

\* The table read at the chunker's default budget, whatever the budget is
BULLET_NUM_MAPPING_DEFAULT_ROW(budget, level) ==
    CASE level = "CONCISE" -> 4 [] level = "MEDIUM" -> 6 [] level = "DETAILED" -> 8

BULLET_NUM_MAPPING(budget, level) ==
    CASE budget = 512  -> (CASE level = "CONCISE" -> 3 [] level = "MEDIUM" -> 4
                             [] level = "DETAILED" -> 5)
      [] budget = 1024 -> (CASE level = "CONCISE" -> 4 [] level = "MEDIUM" -> 6
                             [] level = "DETAILED" -> 8)
      [] budget = 2048 -> (CASE level = "CONCISE" -> 4 [] level = "MEDIUM" -> 8
                             [] level = "DETAILED" -> 12)

\* The prompt texts, without the backquotes around the key names.
CHUNK_SYS_PROMPT == "You are ChatGPT, a helpful AI that excels at summarization and text manipulation. You always return a valid JSON object with only two keys title and summary. Unless otherwise instructed, always return the output in the original language of the document."

SYS_PROMPT == "You are ChatGPT, a helpful AI that excels at summarization and text manipulation. You always return a valid JSON object with only one key summary. Unless otherwise instructed, always return the output in the original language of the document."

SYS_PROMPT_ADD(l) == " Always return the output in " \o l \o "."

\* self._PROMPT_MAPPING as __init__ builds it: the two system prompts.
PromptMapping ==
    [chunk_sys_prompt |-> CHUNK_SYS_PROMPT, sys_prompt |-> SYS_PROMPT]

\* `if lang:` is false for None and for the empty string
SystemPrompt(base, l) ==
    IF l # << >> /\ l[1] # "" THEN base \o SYS_PROMPT_ADD(l[1]) ELSE base

(***************************************************************************)
(* JSON values and completions.  A completion either raises in the client  *)
(* or carries content; the content is JSON text or not; a JSON object has  *)
(* some of the keys title and summary.                                     *)
(***************************************************************************)
JStr(s) == [t |-> "str", s |-> s, l |-> << >>]
JList(l) == [t |-> "list", s |-> "", l |-> l]
JNull == [t |-> "null", s |-> "", l |-> << >>]

Completion(raises, json, keys, title, summary) ==
    [raises |-> raises, json |-> json, keys |-> keys, title |-> title,
     summary |-> summary]

ChunkCompletions ==
    { Completion(FALSE, TRUE, {"title", "summary"}, JStr("T1"), JList(<< "a b", "c" >>)),
      Completion(FALSE, TRUE, {"title", "summary"}, JStr("T2"), JList(<< "d" >>)),
      Completion(FALSE, TRUE, {"title", "summary"}, JStr("T3"), JNull),
      Completion(FALSE, TRUE, {"title"}, JStr("T4"), JNull),
      Completion(FALSE, TRUE, {"summary"}, JNull, JList(<< "e" >>)),
      Completion(FALSE, FALSE, {}, JNull, JNull),
      Completion(TRUE, FALSE, {}, JNull, JNull) }

GoodChunkCompletion ==
    Completion(FALSE, TRUE, {"title", "summary"}, JStr("T1"), JList(<< "a b", "c" >>))

ChunkCompletionsIn(w) ==
    IF w = "completions" THEN ChunkCompletions ELSE { GoodChunkCompletion }

GoodRefineCompletion ==
    Completion(FALSE, TRUE, {"summary"}, JNull, JStr(" p\n\nq  r "))

RefineCompletions ==
    { Completion(FALSE, TRUE, {"summary"}, JNull, JStr("x y")),
      Completion(FALSE, TRUE, {"summary"}, JNull, JStr(" p\n\nq  r ")),
      Completion(FALSE, TRUE, {"summary"}, JNull, JStr("")),
      Completion(FALSE, TRUE, {"summary"}, JNull, JList(<< "x y" >>)),
      Completion(FALSE, TRUE, {"title"}, JStr("T"), JNull),
      Completion(FALSE, FALSE, {}, JNull, JNull),
      Completion(TRUE, FALSE, {}, JNull, JNull) }

RefineCompletionsIn(w) ==
    IF w = "completions" THEN RefineCompletions ELSE { GoodRefineCompletion }

\* _acomplete: the exception it raises, "" when it returns the parsed object
AcompleteError(c) ==
    IF c.raises THEN "ClientError"
    ELSE IF ~c.json THEN "JSONDecodeError"
    ELSE ""

\* A _summarize_chunk task: scheduled, awaiting its completion, returned or raised.
Task(st, title, summary, exc) ==
    [st |-> st, title |-> title, summary |-> summary, exc |-> exc]

\* _summarize_chunk with a placeholder result in place of a failure
SummarizeChunkOrPlaceholder(c) ==
    IF \/ c.raises
       \/ ~c.json
       \/ ~({"title", "summary"} \subseteq c.keys)
    THEN Task("returned", JStr(""), JList(<< >>), "")
    ELSE Task("returned", c.title, c.summary, "")

\* _summarize_chunk reading the title with a default (content.get)
SummarizeChunkResultTitleOptional(c) ==
    IF AcompleteError(c) # "" THEN Task("raised", JNull, JNull, AcompleteError(c))
    ELSE IF "summary" \notin c.keys THEN Task("raised", JNull, JNull, "KeyError")
    ELSE Task("returned", c.title, c.summary, "")

\* _summarize_chunk after its completion arrived
SummarizeChunkResult(c) ==
    IF AcompleteError(c) # "" THEN Task("raised", JNull, JNull, AcompleteError(c))
    ELSE IF "title" \notin c.keys THEN Task("raised", JNull, JNull, "KeyError")
    ELSE IF "summary" \notin c.keys THEN Task("raised", JNull, JNull, "KeyError")
    ELSE Task("returned", c.title, c.summary, "")

\* A wait for the first child to finish in place of the wait for all
GatherStateFirstCompleted(ts, g) ==
    IF g # "pending" THEN g
    ELSE IF \E i \in DOMAIN ts : ts[i].st = "raised" THEN "exception"
    ELSE IF \E i \in DOMAIN ts : ts[i].st = "returned" THEN "result"
    ELSE "pending"

\* A gather that resolves only when some child has returned
GatherStateNeedsTask(ts, g) ==
    IF g # "pending" THEN g
    ELSE IF \E i \in DOMAIN ts : ts[i].st = "raised" THEN "exception"
    ELSE IF /\ ts # << >>
            /\ \A i \in DOMAIN ts : ts[i].st = "returned" THEN "result"
    ELSE "pending"

\* asyncio.gather: the outer future fails with the first exception of a child
\* and otherwise, once every child is done, holds the results by position.
GatherState(ts, g) ==
    IF g # "pending" THEN g
    ELSE IF \E i \in DOMAIN ts : ts[i].st = "raised" THEN "exception"
    ELSE IF \A i \in DOMAIN ts : ts[i].st = "returned" THEN "result"
    ELSE "pending"

\* The results in the order in which the tasks completed
GatherResultsByArrival(ts, arr) ==
    [i \in DOMAIN ts |-> << ts[arr[i].chunk].title, ts[arr[i].chunk].summary >>]

\* The results list of asyncio.gather: result i is the result of task i,
\* whatever the order arr in which the tasks completed.
GatherResults(ts, arr) == [i \in DOMAIN ts |-> << ts[i].title, ts[i].summary >>]

Chars(s) == [i \in 1..Len(s) |-> Ch(s, i)]

\* "\n".join(chunk_summary) accepts a list of strings or a string
CanJoin(v) == v.t \in {"list", "str"}
JoinBullets(v) == IF v.t = "list" THEN Join("\n", v.l) ELSE Join("\n", Chars(v.s))

\* The blocks headed by their chunk's title
ChunkSummariesTitled(results) ==
    [i \in DOMAIN results |->
        results[i][1].s \o "\n" \o JoinBullets(results[i][2]) \o "\n"]

\* chunk_summaries of _summarize_multiple_chunks
ChunkSummaries(results) ==
    [i \in DOMAIN results |-> JoinBullets(results[i][2]) \o "\n"]

(***************************************************************************)
(* The external collaborators' outputs.                                    *)
(***************************************************************************)
\* A call is explored in one of two worlds, so that the collaborators' outputs
\* add up instead of multiplying: in "inputs" the caller's arguments, the
\* detector and the tokenizer vary and the completion service answers well;
\* in "completions" the completion service answers in every way and the rest
\* is fixed.
Worlds == {"inputs", "completions"}

\* embed_len(text): tiktoken yields no token for the empty text only.
TokenLengths(w, t) ==
    IF t = "" THEN {0}
    ELSE IF w = "inputs" THEN {1500, 2047, 2048, 4095, 4096}
    ELSE {2047}

DetectionsIn(w) == IF w = "inputs" THEN Detections ELSE {"CZECH"}

\* len(chunk_text(text, budget)): semchunk drops empty chunks.
ChunkCounts(t) == IF t = "" THEN {0} ELSE 1..MaxChunks

IsBlank(t) == \A i \in 1..Len(t) : IsSpace(Ch(t, i))

\* chunk_text(merged_summary, 400): the whole text as one chunk, or the text
\* cut at a line break, which the chunker drops; no chunk is blank.
ChunkTextOutcomes(t) ==
    IF IsBlank(t) THEN { << >> }
    ELSE { << t >> } \cup
         { << SubSeq(t, 1, i - 1), SubSeq(t, i + 1, Len(t)) >> :
             i \in { j \in 1..Len(t) : /\ Ch(t, j) = "\n"
                                        /\ ~IsBlank(SubSeq(t, 1, j - 1))
                                        /\ ~IsBlank(SubSeq(t, j + 1, Len(t))) } }

(***************************************************************************)
(* The calls a caller makes.                                               *)
(***************************************************************************)
\* s repeated n times
RECURSIVE Repeat(_, _)
Repeat(s, n) ==
    IF n = 0 THEN ""
    ELSE IF n % 2 = 0 THEN Repeat(s \o s, n \div 2)
    ELSE s \o Repeat(s, n - 1)

\* A text longer than the detector's sample, with emphasis at its start.
LongText == "*a* " \o Repeat("b", 1000)

\* Two paragraphs with a horizontal rule between them.
RuleText == "A.\n\n-----\n\nB"

RawTexts == {"", "***a*** b", LongText, RuleText}
LevelStrings == {"concise", "Detailed", "MEDIUM", "brief", ""}
Instructions == { << >>, << "Translate to Czech." >> }
\* num_words as the caller passes it: << >> when the caller omits it
WordCounts == { << >>, << 30 >>, << 50 >>, << 51 >>, << 150 >>, << 151 >> }

\* the default of the parameter num_words
DefaultNumWords == 100

NoOutcome == [st |-> "running", summary |-> "", word_count |-> 0, exc |-> ""]
Returned(summary, n) == [st |-> "returned", summary |-> summary, word_count |-> n, exc |-> ""]
Raised(exc) == [st |-> "raised", summary |-> "", word_count |-> 0, exc |-> exc]

\* summarize_text_with_word_count after its await: the pair is unpacked and
\* returned; an exception passes through.
WordCountReturn(r) ==
    IF r.st = "returned" THEN Returned(r.summary, r.word_count) ELSE r

\* What the caller of the entry point o gets when the detail-level entry
\* point leaves r.
Deliver(o, r) ==
    IF o = "summarize_text_with_word_count" THEN WordCountReturn(r) ELSE r

\* One completion call: its system prompt and what its user prompt embeds.
ChunkCall(system, chunk, n) ==
    [kind |-> "chunk", system |-> system, chunk |-> chunk, bullet_num |-> n,
     merged_summaries |-> "", further_instruction |-> ""]
RefineCall(system, merged, instr) ==
    [kind |-> "refine", system |-> system, chunk |-> 0, bullet_num |-> 0,
     merged_summaries |-> merged, further_instruction |-> instr]

\* One call of chunk_text: its arguments and the chunks it returned (the
\* chunks of the caller's text stand as their positions).
ChunkTextCall(t, max_token_chars, cs) ==
    [text |-> t, max_token_chars |-> max_token_chars, chunks |-> cs]

\* The streaming requests a run follows.
Requests == {1, 2}

\* RealTimeAgentStreamer.__init__ and Mem0StreamingService.__init__, with no
\* request received.
StreamersConstructed ==
    /\ queue = << >>
    /\ is_streaming = FALSE
    /\ stream_pc = [r \in Requests |-> "none"]
    /\ agent_task = [r \in Requests |->
                        [st |-> "none", callbacks |-> 0, streamed |-> ""]]
    /\ events = [r \in Requests |-> << >>]
    /\ current_session_id = << >>
    /\ current_user_message = ""
    /\ current_agent_response = ""
    /\ saved = << >>

InitLocals ==
    /\ text = ""
    /\ summ_level_enum = ""
    /\ detected = [sample |-> "", language |-> ""]
    /\ lang = << >>
    /\ instruction = ""
    /\ tokLen = 0
    /\ max_token_per_chunk = 0
    /\ bullet_num = 0
    /\ chunks = 0
    /\ tasks = << >>
    /\ gather = "none"
    /\ arrival = << >>
    /\ calls = << >>
    /\ chunk_summaries = << >>
    /\ merged_summary = ""
    /\ refined = << >>
    /\ detail_result = NoOutcome
    /\ outcome = NoOutcome
    /\ detector_calls = << >>
    /\ merged_summaries = ""
    /\ tool_result = << >>
    /\ PROMPT_MAPPING = PromptMapping
    /\ chunk_text_calls = << >>

\* A caller calls summarize_text_with_detail_level.
CallDetailLevel(texts, levels, instructions) ==
    /\ op = "summarize_text_with_detail_level"
    /\ pc = "detail_level"
    /\ wc_text = ""
    /\ num_words = 0
    /\ arg_text \in texts
    /\ summarization_level \in levels
    /\ further_instruction \in instructions

\* A caller calls summarize_text_with_word_count.
CallWordCount(texts, counts) ==
    /\ op = "summarize_text_with_word_count"
    /\ pc = "word_count"
    /\ wc_text \in texts
    /\ \E n \in counts :
          num_words = IF n = << >> THEN DefaultNumWords ELSE n[1]
    /\ arg_text = ""
    /\ summarization_level = ""
    /\ further_instruction = << >>

\* The entry points are called directly, or by an MCP tool (summarize_by_
\* detail_level, summarize_by_word_count), which fetches the text first.
Init ==
    /\ InitLocals
    /\ StreamersConstructed
    /\ endpoint = "none"
    /\ \/ /\ world = "inputs"
          /\ tool_pc = "direct"
          /\ \/ CallDetailLevel(RawTexts, LevelStrings, Instructions)
             \/ CallWordCount(RawTexts, WordCounts)
       \/ /\ world = "completions"
          /\ tool_pc = "direct"
          /\ \/ CallDetailLevel(RawTexts, {"concise"}, {<< >>})
             \/ CallWordCount(RawTexts, {<< >>})
       \/ /\ world = "completions"
          /\ tool_pc = "fetch"
          /\ \/ CallDetailLevel({""}, {"concise"}, {<< >>})
             \/ CallWordCount({""}, {<< >>})

\* The entry point has been called: directly, or by the tool after its fetch.
CoreCalled == tool_pc \in {"direct", "core"}

(***************************************************************************)
(* The MCP tool up to its call of the entry point: get_document_text       *)
(* returns the document's text or raises.                                  *)
(***************************************************************************)
DocumentFetches == { Value(t) : t \in RawTexts } \cup { Raise("DocumentError") }

ToolShellFetch ==
    /\ tool_pc = "fetch"
    /\ \E d \in DocumentFetches :
          IF d.exc # ""
          THEN /\ tool_result' = << Value("Error: " \o d.exc) >>
               /\ tool_pc' = "returned"
               /\ UNCHANGED << wc_text, arg_text >>
          ELSE /\ tool_pc' = "core"
               /\ wc_text' = IF op = "summarize_text_with_word_count"
                              THEN d.value ELSE wc_text
               /\ arg_text' = IF op = "summarize_text_with_detail_level"
                               THEN d.value ELSE arg_text
               /\ UNCHANGED tool_result
    /\ UNCHANGED << world, op, pc, num_words, summarization_level,
                    further_instruction, text, summ_level_enum, detected,
                    lang, instruction, tokLen, max_token_per_chunk, bullet_num,
                    chunks, tasks, gather, arrival, calls, chunk_summaries,
                    merged_summary, refined, detail_result, outcome,
                    detector_calls, merged_summaries,
                    PROMPT_MAPPING, chunk_text_calls, streamVars >>

(***************************************************************************)
(* summarize_text_with_word_count up to its call of the detail-level entry *)
(* point.                                                                  *)
(***************************************************************************)
SummarizeTextWithWordCount ==
    /\ CoreCalled
    /\ pc = "word_count"
    /\ arg_text' = process_markdown_string(wc_text)
    /\ summarization_level' = WordCountLevel(num_words)
    /\ further_instruction' = << WordCountInstruction(num_words) >>
    /\ pc' = "detail_level"
    /\ UNCHANGED << world, op, wc_text, num_words, text, summ_level_enum, detected,
                    lang, instruction, tokLen, max_token_per_chunk, bullet_num,
                    chunks, tasks, gather, arrival, calls, chunk_summaries,
                    merged_summary, refined, detail_result,
                    outcome,
                    detector_calls, merged_summaries, tool_pc, tool_result,
                    PROMPT_MAPPING, chunk_text_calls, streamVars >>

(***************************************************************************)
(* summarize_text_with_detail_level up to summarizer.summarize, and        *)
(* summarize up to _summarize_text.                                        *)
(***************************************************************************)
\* The instruction passed on as it came
InstructionAsGiven(fi) == IF fi = << >> THEN "None" ELSE fi[1]

\* summarize: `if further_instruction is None: further_instruction = ""`
InstructionOrEmpty(fi) == IF fi = << >> THEN "" ELSE fi[1]

\* The whole text given to the detector
TextSampleWhole(t) == t

TextSample(t) == SubSeq(t, 1, IF Len(t) < 1000 THEN Len(t) ELSE 1000)

SummarizeTextWithDetailLevel ==
    /\ CoreCalled
    /\ pc = "detail_level"
    /\ text' = process_markdown_string(arg_text)
    /\ summ_level_enum' = ResolveLevel(summarization_level)
    /\ \E language \in DetectionsIn(world) :
          /\ detected' = [sample |-> TextSample(text'), language |-> language]
          /\ detector_calls' = Append(detector_calls, TextSample(text'))
          /\ LET r == detect_language_lingua(language)
             IN  IF r.exc = "ValueError"
                 THEN /\ lang' = << >>
                      /\ pc' = "summarize_multiple_chunks"
                      /\ UNCHANGED << detail_result, outcome >>
                 ELSE IF r.exc # ""
                 THEN /\ detail_result' = Raised(r.exc)
                      /\ outcome' = Deliver(op, detail_result')
                      /\ pc' = "done"
                      /\ UNCHANGED lang
                 ELSE /\ lang' = << r.value >>
                      /\ pc' = "summarize_multiple_chunks"
                      /\ UNCHANGED << detail_result, outcome >>
    /\ instruction' = InstructionOrEmpty(further_instruction)
    /\ UNCHANGED << world, op, wc_text, num_words, arg_text, summarization_level,
                    further_instruction, tokLen, max_token_per_chunk,
                    bullet_num, chunks, tasks, gather, arrival, calls,
                    chunk_summaries, merged_summary, refined,
                    merged_summaries, tool_pc, tool_result,
                    PROMPT_MAPPING, chunk_text_calls, streamVars >>

(***************************************************************************)
(* _summarize_multiple_chunks up to the await of asyncio.gather.        *)
(***************************************************************************)
SummarizeMultipleChunks ==
    /\ pc = "summarize_multiple_chunks"
    /\ \E len \in TokenLengths(world, text), n \in ChunkCounts(text) :
          /\ tokLen' = len
          /\ max_token_per_chunk' = MaxTokenPerChunk(len)
          /\ bullet_num' = BULLET_NUM_MAPPING(MaxTokenPerChunk(len), summ_level_enum)
          /\ chunks' = n
          /\ tasks' = [i \in 1..n |-> Task("scheduled", JNull, JNull, "")]
          /\ gather' = GatherState(tasks', "pending")
          /\ chunk_text_calls' =
                Append(chunk_text_calls,
                       ChunkTextCall(text, MaxTokenPerChunk(len), [i \in 1..n |-> i]))
    /\ pc' = "gather"
    /\ UNCHANGED << world, op, wc_text, num_words, arg_text, summarization_level,
                    further_instruction, text, summ_level_enum, detected,
                    lang, instruction, arrival, calls, chunk_summaries,
                    merged_summary, refined, detail_result,
                    outcome,
                    detector_calls, merged_summaries, tool_pc, tool_result,
                    PROMPT_MAPPING, streamVars >>

(***************************************************************************)
(* _summarize_chunk for chunk i up to the await of self._acomplete: the event   *)
(* loop starts the tasks in the order gather scheduled them.               *)
(***************************************************************************)
ChunkSystemPrompt(l) == SystemPrompt(PROMPT_MAPPING.chunk_sys_prompt, l)

\* The chunks summarized one after the other: a call is issued once the
\* calls before it have completed
StartChunkTaskSequential(i) ==
    /\ tasks[i].st = "scheduled"
    /\ \A j \in 1..(i - 1) : tasks[j].st \in {"returned", "raised"}
    /\ tasks' = [tasks EXCEPT ![i].st = "awaiting"]
    /\ calls' = Append(calls, ChunkCall(ChunkSystemPrompt(lang), i, bullet_num))
    /\ UNCHANGED << world, op, pc, wc_text, num_words, arg_text, summarization_level,
                    further_instruction, text, summ_level_enum, detected,
                    lang, instruction, tokLen, max_token_per_chunk, bullet_num,
                    chunks, gather, arrival, chunk_summaries, merged_summary,
                    refined, detail_result, outcome,
                    detector_calls, merged_summaries, tool_pc, tool_result,
                    PROMPT_MAPPING, chunk_text_calls, streamVars >>

\* A task that builds its system prompt in place, in the object's mapping
StartChunkTaskSharedPrompt(i) ==
    /\ tasks[i].st = "scheduled"
    /\ \A j \in 1..(i - 1) : tasks[j].st # "scheduled"
    /\ tasks' = [tasks EXCEPT ![i].st = "awaiting"]
    /\ PROMPT_MAPPING' =
          [PROMPT_MAPPING EXCEPT !.chunk_sys_prompt = ChunkSystemPrompt(lang)]
    /\ calls' = Append(calls, ChunkCall(PROMPT_MAPPING'.chunk_sys_prompt, i, bullet_num))
    /\ UNCHANGED << world, op, pc, wc_text, num_words, arg_text, summarization_level,
                    further_instruction, text, summ_level_enum, detected,
                    lang, instruction, tokLen, max_token_per_chunk, bullet_num,
                    chunks, gather, arrival, chunk_summaries, merged_summary,
                    refined, detail_result, outcome,
                    detector_calls, merged_summaries, tool_pc, tool_result,
                    chunk_text_calls, streamVars >>

StartChunkTask(i) ==
    /\ tasks[i].st = "scheduled"
    /\ \A j \in 1..(i - 1) : tasks[j].st # "scheduled"
    /\ tasks' = [tasks EXCEPT ![i].st = "awaiting"]
    /\ calls' = Append(calls, ChunkCall(ChunkSystemPrompt(lang), i, bullet_num))
    /\ UNCHANGED << world, op, pc, wc_text, num_words, arg_text, summarization_level,
                    further_instruction, text, summ_level_enum, detected,
                    lang, instruction, tokLen, max_token_per_chunk, bullet_num,
                    chunks, gather, arrival, chunk_summaries, merged_summary,
                    refined, detail_result,
                    outcome,
                    detector_calls, merged_summaries, tool_pc, tool_result,
                    PROMPT_MAPPING, chunk_text_calls, streamVars >>

(***************************************************************************)
(* The completion of chunk i's call arrives: _summarize_chunk runs to its  *)
(* end and gather's callback sees the task done.                           *)
(***************************************************************************)
\* The completion calls issued for chunk i.
ChunkCallsFor(i) ==
    { j \in DOMAIN calls : calls[j].kind = "chunk" /\ calls[j].chunk = i }

\* A failed chunk call issued a second time before the task gives up
CompleteChunkRetryOnce(i, c) ==
    /\ tasks[i].st = "awaiting"
    /\ arrival' = Append(arrival, [chunk |-> i, completion |-> c])
    /\ IF SummarizeChunkResult(c).st = "raised" /\ Cardinality(ChunkCallsFor(i)) < 2
       THEN /\ calls' = Append(calls, ChunkCall(ChunkSystemPrompt(lang), i, bullet_num))
            /\ UNCHANGED tasks
       ELSE /\ tasks' = [tasks EXCEPT ![i] = SummarizeChunkResult(c)]
            /\ UNCHANGED calls
    /\ gather' = GatherState(tasks', gather)
    /\ UNCHANGED << world, op, pc, wc_text, num_words, arg_text, summarization_level,
                    further_instruction, text, summ_level_enum, detected,
                    lang, instruction, tokLen, max_token_per_chunk, bullet_num,
                    chunks, chunk_summaries, merged_summary, refined,
                    detail_result, outcome,
                    detector_calls, merged_summaries, tool_pc, tool_result,
                    PROMPT_MAPPING, chunk_text_calls, streamVars >>

CompleteChunk(i, c) ==
    /\ tasks[i].st = "awaiting"
    /\ tasks' = [tasks EXCEPT ![i] = SummarizeChunkResult(c)]
    /\ arrival' = Append(arrival, [chunk |-> i, completion |-> c])
    /\ gather' = GatherState(tasks', gather)
    /\ UNCHANGED << world, op, pc, wc_text, num_words, arg_text, summarization_level,
                    further_instruction, text, summ_level_enum, detected,
                    lang, instruction, tokLen, max_token_per_chunk, bullet_num,
                    chunks, calls, chunk_summaries, merged_summary, refined,
                    detail_result,
                    outcome,
                    detector_calls, merged_summaries, tool_pc, tool_result,
                    PROMPT_MAPPING, chunk_text_calls, streamVars >>

(***************************************************************************)
(* gather raised: the exception leaves _summarize_multiple_chunks,         *)
(* _summarize_text, summarize and the entry point.                         *)
(***************************************************************************)
FirstRaised ==
    arrival[Min({ k \in DOMAIN arrival : tasks[arrival[k].chunk].st = "raised" })].chunk

GatherRaise ==
    /\ pc = "gather"
    /\ gather = "exception"
    /\ \A i \in DOMAIN tasks : tasks[i].st # "scheduled"
    /\ detail_result' = Raised(tasks[FirstRaised].exc)
    /\ outcome' = Deliver(op, detail_result')
    /\ pc' = "done"
    /\ UNCHANGED << world, op, wc_text, num_words, arg_text, summarization_level,
                    further_instruction, text, summ_level_enum, detected,
                    lang, instruction, tokLen, max_token_per_chunk, bullet_num,
                    chunks, tasks, gather, arrival, calls, chunk_summaries,
                    merged_summary, refined,
                    detector_calls, merged_summaries, tool_pc, tool_result,
                    PROMPT_MAPPING, chunk_text_calls, streamVars >>

(***************************************************************************)
(* gather returned: the rest of _summarize_multiple_chunks, then           *)
(* _summarize_text and _refine_merged_summaries up to                      *)
(* the await of self._acomplete.                                                *)
(***************************************************************************)
\* The refinement prompt without the language directive
RefineSystemPromptNoDirective(l) == SYS_PROMPT

RefineSystemPrompt(l) == SystemPrompt(PROMPT_MAPPING.sys_prompt, l)

\* chunk_text(merged_summary, 400): the budget of the second chunking
RefineChunkBudget == 400

\* The re-chunked summary joined by line breaks
RefineInputLineJoined(rechunked) == Join("\n", rechunked)

\* "\n\n".join(chunks): what the refinement prompt embeds
RefineInput(rechunked) == Join("\n\n", rechunked)

GatherReturn ==
    /\ pc = "gather"
    /\ gather = "result"
    /\ LET results == GatherResults(tasks, arrival)
       IN  IF \E i \in DOMAIN results : ~CanJoin(results[i][2])
           THEN /\ detail_result' = Raised("TypeError")
                /\ outcome' = Deliver(op, detail_result')
                /\ pc' = "done"
                /\ UNCHANGED << chunk_summaries, merged_summaries,
                                merged_summary, calls, chunk_text_calls >>
           ELSE /\ chunk_summaries' = ChunkSummaries(results)
                /\ merged_summaries' = Concat(chunk_summaries')
                /\ \E rechunked \in ChunkTextOutcomes(merged_summaries') :
                      /\ chunk_text_calls' =
                            Append(chunk_text_calls,
                                   ChunkTextCall(merged_summaries',
                                                 RefineChunkBudget, rechunked))
                      /\ merged_summary' = RefineInput(rechunked)
                      /\ calls' = Append(calls, RefineCall(RefineSystemPrompt(lang),
                                                           merged_summary', instruction))
                /\ pc' = "refine"
                /\ UNCHANGED << detail_result, outcome >>
    /\ UNCHANGED << world, op, wc_text, num_words, arg_text, summarization_level,
                    further_instruction, text, summ_level_enum, detected,
                    lang, instruction, tokLen, max_token_per_chunk, bullet_num,
                    chunks, tasks, gather, arrival, refined,
                    detector_calls, tool_pc, tool_result,
                    PROMPT_MAPPING, streamVars >>

(***************************************************************************)
(* The refinement completion arrives: _refine_merged_summaries returns     *)
(* content["summary"], _summarize_text counts the words, and the pair goes *)
(* back through summarize and the entry point(s) to the caller.            *)
(***************************************************************************)
\* The refiner falling back to the merged text when the key is absent
RefineResultFallback(c) ==
    IF AcompleteError(c) # "" THEN Raised(AcompleteError(c))
    ELSE IF "summary" \notin c.keys
    THEN Returned(merged_summary, count_word(merged_summary))
    ELSE IF c.summary.t # "str" THEN Raised("AttributeError")
    ELSE Returned(c.summary.s, count_word(c.summary.s))

\* The words counted on the merged text, before the refinement
RefineResultCountsMerged(c) ==
    IF AcompleteError(c) # "" THEN Raised(AcompleteError(c))
    ELSE IF "summary" \notin c.keys THEN Raised("KeyError")
    ELSE IF c.summary.t # "str" THEN Raised("AttributeError")
    ELSE Returned(c.summary.s, count_word(merged_summary))

RefineResult(c) ==
    IF AcompleteError(c) # "" THEN Raised(AcompleteError(c))
    ELSE IF "summary" \notin c.keys THEN Raised("KeyError")
    ELSE IF c.summary.t # "str" THEN Raised("AttributeError")
    ELSE Returned(c.summary.s, count_word(c.summary.s))

CompleteRefine(c) ==
    /\ pc = "refine"
    /\ refined' = << c >>
    /\ detail_result' = RefineResult(c)
    /\ outcome' = Deliver(op, detail_result')
    /\ merged_summary' = IF detail_result'.st = "returned"
                         THEN detail_result'.summary
                         ELSE merged_summary
    /\ pc' = "done"
    /\ UNCHANGED << world, op, wc_text, num_words, arg_text, summarization_level,
                    further_instruction, text, summ_level_enum, detected,
                    lang, instruction, tokLen, max_token_per_chunk, bullet_num,
                    chunks, tasks, gather, arrival, calls, chunk_summaries,
                    detector_calls, merged_summaries, tool_pc, tool_result,
                    PROMPT_MAPPING, chunk_text_calls, streamVars >>

(***************************************************************************)
(* The MCP tool after its await of the entry point: the pair formatted, or *)
(* the exception caught and formatted.                                     *)
(***************************************************************************)
\* The tool catching KeyError only
ToolShellResultNarrowCatch(o, n, r) ==
    IF r.st = "raised"
    THEN IF r.exc = "KeyError" THEN Value("Error: " \o r.exc) ELSE Raise(r.exc)
    ELSE IF o = "summarize_text_with_word_count"
    THEN Value("Summary (Target: " \o ToString(n) \o " words, Actual: "
                  \o ToString(r.word_count) \o " words):\n\n" \o r.summary)
    ELSE Value("Summary (" \o ToString(r.word_count) \o " words):\n\n" \o r.summary)

\* What the tool that called the entry point o returns when the entry point
\* left it r; the text of an exception is its name here.
ToolShellResult(o, n, r) ==
    IF r.st = "raised" THEN Value("Error: " \o r.exc)
    ELSE IF o = "summarize_text_with_word_count"
    THEN Value("Summary (Target: " \o ToString(n) \o " words, Actual: "
                  \o ToString(r.word_count) \o " words):\n\n" \o r.summary)
    ELSE Value("Summary (" \o ToString(r.word_count) \o " words):\n\n" \o r.summary)

ToolShellReturn ==
    /\ tool_pc = "core"
    /\ pc = "done"
    /\ tool_result' = << ToolShellResult(op, num_words, outcome) >>
    /\ tool_pc' = "returned"
    /\ UNCHANGED << world, op, pc, wc_text, num_words, arg_text, summarization_level,
                    further_instruction, text, summ_level_enum, detected,
                    lang, instruction, tokLen, max_token_per_chunk, bullet_num,
                    chunks, tasks, gather, arrival, calls, chunk_summaries,
                    merged_summary, refined, detail_result, outcome,
                    detector_calls, merged_summaries,
                    PROMPT_MAPPING, chunk_text_calls, streamVars >>

Next ==
    \/ ToolShellFetch
    \/ ToolShellReturn
    \/ SummarizeTextWithWordCount
    \/ SummarizeTextWithDetailLevel
    \/ SummarizeMultipleChunks
    \/ \E i \in 1..MaxChunks : i \in DOMAIN tasks /\ StartChunkTask(i)
    \/ \E i \in 1..MaxChunks, c \in ChunkCompletionsIn(world) :
          i \in DOMAIN tasks /\ CompleteChunk(i, c)
    \/ GatherRaise
    \/ GatherReturn
    \/ \E c \in RefineCompletionsIn(world) : CompleteRefine(c)

Spec == Init /\ [][Next]_vars

(***************************************************************************)
(* The streaming service.  Requests arrive at one route of main.py and are *)
(* served by the one streamer object behind that route: the module-level   *)
(* real_time_streamer for /agent/stream/realtime, streaming_service with   *)
(* its own streamer for /chat/{session_id}/stream.  A request is a         *)
(* generator the response drives: a step runs it from one suspension       *)
(* (yield or await) to the next.  Its agent run is a task of its own.      *)
(***************************************************************************)
\* The callbacks one agent run makes at most.
MaxCallbacks == 2

Endpoints == {"realtime", "chat"}

\* The message of request r; its session is r.
Message(r) == "m" \o ToString(r)

\* What astream_graph hands the callback: a content text, or data the
\* callback fails on.
CallbackData ==
    { [text |-> t, bad |-> FALSE] : t \in {"", "a", "final and complete"} }
        \cup { [text |-> "", bad |-> TRUE] }

\* A run of the streaming service is explored in one of two worlds, so that
\* the interleavings and the collaborators' outputs add up instead of
\* multiplying: in "concurrent" two requests stream at once and every message
\* of the graph has the content "a"; in "single" one request streams and the
\* graph's messages vary in every way.
StreamWorlds == {"concurrent", "single"}

Arriving(w) == IF w = "single" THEN {1} ELSE Requests

CallbackDataIn(w) ==
    IF w = "single" THEN CallbackData ELSE { [text |-> "a", bad |-> FALSE] }

\* A chunk of the queue.  The field of names the request whose agent run
\* enqueued it; the program's chunk has no such field.
Chunk(type, content, r) == [type |-> type, content |-> content, of |-> r]

\* An event of a response stream: a chunk taken from the queue, or an event
\* of the generator itself.
Event(type, content, r, chunk) ==
    [type |-> type, content |-> content, of |-> r, chunk |-> chunk,
     saved_to_memory |-> FALSE]

\* The text of an event: "data: " and the JSON of the event.
Sse(e) ==
    IF e.chunk
    THEN "data: {type: " \o e.type \o ", node: Agent, content: " \o e.content \o "}"
    ELSE IF e.type = "start"
    THEN "data: {type: start, message: Agent starting to process your query...}"
    ELSE IF e.type = "final"
    THEN "data: {type: final, result: " \o e.content \o ", complete: true}"
    ELSE "data: {type: " \o e.type \o ", message: " \o e.content \o "}"

\* A substring check: `x in chunk`
InText(sub, t) ==
    \E p \in 1..(Len(t) - Len(sub) + 1) : SubSeq(t, p, p + Len(sub) - 1) = sub

\* generate_memory_stream: `'final' in chunk and 'complete' in chunk`
IsFinalChunk(t) == InText("final", t) /\ InText("complete", t)

\* real_time_callback: what it puts on the queue for the data d of request r.
real_time_callback(r, d) ==
    IF d.bad THEN << Chunk("error", "Processing error", r) >>
    ELSE IF d.text = "" THEN << >>
    ELSE << Chunk("thinking", d.text, r) >>

\* memory.search and memory.add: the outcomes of the memory store.
ChatWithMemoryOutcomes == {"raise", "no memories", "memories"}
SaveOutcomes == {"saved", "raise"}

SummarizerIdle ==
    /\ InitLocals
    /\ op = "none"
    /\ pc = "idle"
    /\ wc_text = ""
    /\ num_words = << >>
    /\ arg_text = ""
    /\ summarization_level = ""
    /\ further_instruction = << >>
    /\ tool_pc = "none"

StreamInit ==
    /\ SummarizerIdle
    /\ world \in StreamWorlds
    /\ StreamersConstructed
    /\ endpoint \in Endpoints

\* The generator of request r yields the event e and is then at next.  Behind
\* /chat the event passes through the loop of generate_memory_stream, which
\* saves the conversation when it takes the event for the final one; a
\* failure of the save ends the response with an error event and the inner
\* generator is closed where it stands.
Yield(r, e, next) ==
    IF endpoint = "chat" /\ IsFinalChunk(Sse(e))
    THEN \E o \in SaveOutcomes :
            IF o = "saved"
            THEN /\ saved' = Append(saved,
                                    [user_message |-> current_user_message,
                                     agent_response |-> current_agent_response,
                                     session_id |-> r])
                 /\ events' = [events EXCEPT
                                ![r] = Append(@, [e EXCEPT !.saved_to_memory = TRUE])]
                 /\ stream_pc' = [stream_pc EXCEPT ![r] = next]
            ELSE /\ events' = [events EXCEPT
                                ![r] = Append(@, Event("error", "MemoryError", r, FALSE))]
                 /\ stream_pc' = [stream_pc EXCEPT ![r] = "terminal"]
                 /\ UNCHANGED saved
    ELSE /\ events' = [events EXCEPT ![r] = Append(@, e)]
         /\ stream_pc' = [stream_pc EXCEPT ![r] = next]
         /\ UNCHANGED saved

\* generate_real_time_stream up to its first yield.
StreamStart(r) ==
    /\ is_streaming' = TRUE
    /\ Yield(r, Event("start", "", r, FALSE), "started")

\* A request arrives at /agent/stream/realtime.
GenerateRealTimeStream(r) ==
    /\ endpoint = "realtime"
    /\ r \in Arriving(world)
    /\ stream_pc[r] = "none"
    /\ StreamStart(r)
    /\ UNCHANGED << queue, agent_task, current_session_id, current_user_message,
                    current_agent_response, endpoint, summVars >>

\* A request arrives at /chat/r/stream: generate_memory_stream up to its
\* first yield.
GenerateMemoryStream(r) ==
    /\ endpoint = "chat"
    /\ r \in Arriving(world)
    /\ stream_pc[r] = "none"
    /\ current_user_message' = Message(r)
    /\ current_agent_response' = ""
    /\ current_session_id' = << r >>
    /\ \E m \in ChatWithMemoryOutcomes :
          CASE m = "raise" ->
                  /\ events' = [events EXCEPT
                                  ![r] = Append(@, Event("error", "MemoryError", r, FALSE))]
                  /\ stream_pc' = [stream_pc EXCEPT ![r] = "ended"]
                  /\ UNCHANGED << is_streaming, saved >>
            [] m = "memories" ->
                  /\ events' = [events EXCEPT
                                  ![r] = Append(@, Event("memory", "", r, FALSE))]
                  /\ stream_pc' = [stream_pc EXCEPT ![r] = "memory"]
                  /\ UNCHANGED << is_streaming, saved >>
            [] m = "no memories" -> StreamStart(r)
    /\ UNCHANGED << queue, agent_task, endpoint, summVars >>

\* generate_memory_stream resumed after its memory event: it enters the
\* streamer's generator.
EnterRealTimeStream(r) ==
    /\ stream_pc[r] = "memory"
    /\ StreamStart(r)
    /\ UNCHANGED << queue, agent_task, current_session_id, current_user_message,
                    current_agent_response, endpoint, summVars >>

\* `while self.is_streaming:` and, when it is false, the finally clause.
LoopTest == IF is_streaming THEN "waiting" ELSE "ended"

\* Resumed after the start event: the agent task is created and the loop
\* entered.
CreateAgentTask(r) ==
    /\ stream_pc[r] = "started"
    /\ agent_task' = [agent_task EXCEPT ![r].st = "running"]
    /\ stream_pc' = [stream_pc EXCEPT ![r] = LoopTest]
    /\ is_streaming' = (is_streaming /\ LoopTest # "ended")
    /\ UNCHANGED << queue, events, current_session_id, current_user_message,
                    current_agent_response, saved, endpoint, summVars >>

\* Resumed after a chunk yielded in the loop.
ResumeAfterChunk(r) ==
    /\ stream_pc[r] = "yielded"
    /\ stream_pc' = [stream_pc EXCEPT ![r] = LoopTest]
    /\ is_streaming' = (is_streaming /\ LoopTest # "ended")
    /\ UNCHANGED << queue, agent_task, events, current_session_id,
                    current_user_message, current_agent_response, saved,
                    endpoint, summVars >>

\* queue.get() inside wait_for returns the head of the queue.
QueueGet(r) ==
    /\ stream_pc[r] = "waiting"
    /\ queue # << >>
    /\ queue' = Tail(queue)
    /\ LET c == Head(queue)
       IN  Yield(r, Event(c.type, c.content, c.of, TRUE), "yielded")
    /\ UNCHANGED << is_streaming, agent_task, current_session_id,
                    current_user_message, current_agent_response, endpoint,
                    summVars >>

\* The 0.1 s of wait_for pass with the queue empty: the wait is cancelled.
WaitTimesOut(r) ==
    /\ stream_pc[r] = "waiting"
    /\ queue = << >>
    /\ stream_pc' = [stream_pc EXCEPT ![r] = "timed_out"]
    /\ UNCHANGED << queue, is_streaming, agent_task, events, current_session_id,
                    current_user_message, current_agent_response, saved,
                    endpoint, summVars >>

\* The agent task is done: what is left in the queue is yielded chunk by
\* chunk, then the final event.
DrainOrFinal(r) ==
    IF queue # << >>
    THEN /\ queue' = Tail(queue)
         /\ LET c == Head(queue)
            IN  Yield(r, Event(c.type, c.content, c.of, TRUE), "draining")
    ELSE /\ Yield(r, Event("final", "result", r, FALSE), "terminal")
         /\ UNCHANGED queue

\* Resumed with asyncio.TimeoutError.
HandleTimeout(r) ==
    /\ stream_pc[r] = "timed_out"
    /\ CASE agent_task[r].st = "running" ->
              /\ stream_pc' = [stream_pc EXCEPT ![r] = LoopTest]
              /\ is_streaming' = (is_streaming /\ LoopTest # "ended")
              /\ UNCHANGED << queue, events, saved >>
         [] agent_task[r].st = "failed" ->
              /\ Yield(r, Event("error", "AgentError", r, FALSE), "terminal")
              /\ UNCHANGED << queue, is_streaming >>
         [] agent_task[r].st = "done" ->
              /\ DrainOrFinal(r)
              /\ UNCHANGED is_streaming
    /\ UNCHANGED << agent_task, current_session_id, current_user_message,
                    current_agent_response, endpoint, summVars >>

\* Resumed after a chunk yielded while draining.
Drain(r) ==
    /\ stream_pc[r] = "draining"
    /\ DrainOrFinal(r)
    /\ UNCHANGED << is_streaming, agent_task, current_session_id,
                    current_user_message, current_agent_response, endpoint,
                    summVars >>

\* Resumed, or closed, after the last event: the finally clause.
StreamFinally(r) ==
    /\ stream_pc[r] = "terminal"
    /\ is_streaming' = FALSE
    /\ stream_pc' = [stream_pc EXCEPT ![r] = "ended"]
    /\ UNCHANGED << queue, agent_task, events, current_session_id,
                    current_user_message, current_agent_response, saved,
                    endpoint, summVars >>

\* astream_graph of request r gets a message from the graph and awaits the
\* callback it was given, self.real_time_callback.
AgentCallback(r, d) ==
    /\ agent_task[r].st = "running"
    /\ agent_task[r].callbacks < MaxCallbacks
    /\ queue' = queue \o real_time_callback(r, d)
    /\ agent_task' = [agent_task EXCEPT ![r].callbacks = @ + 1,
                                        ![r].streamed = @ \o d.text]
    /\ UNCHANGED << is_streaming, stream_pc, events, current_session_id,
                    current_user_message, current_agent_response, saved,
                    endpoint, summVars >>

\* astream_graph of request r returns its final result, or the graph raises.
AgentReturn(r) ==
    /\ agent_task[r].st = "running"
    /\ \E st \in {"done", "failed"} :
          agent_task' = [agent_task EXCEPT ![r].st = st]
    /\ UNCHANGED << queue, is_streaming, stream_pc, events, current_session_id,
                    current_user_message, current_agent_response, saved,
                    endpoint, summVars >>

StreamNext ==
    \E r \in Requests :
        \/ GenerateRealTimeStream(r)
        \/ GenerateMemoryStream(r)
        \/ EnterRealTimeStream(r)
        \/ CreateAgentTask(r)
        \/ ResumeAfterChunk(r)
        \/ QueueGet(r)
        \/ WaitTimesOut(r)
        \/ HandleTimeout(r)
        \/ Drain(r)
        \/ StreamFinally(r)
        \/ \E d \in CallbackDataIn(world) : AgentCallback(r, d)
        \/ AgentReturn(r)

StreamSpec == StreamInit /\ [][StreamNext]_vars

(***************************************************************************)
(* Properties.                                                             *)
(***************************************************************************)

\* The entry point has passed its own preamble (normalisation, level, language).
PastEntry == pc \in {"summarize_multiple_chunks", "gather", "refine", "done"} /\ lang # << >>

\* _summarize_multiple_chunks has computed its budget and issued its gather.
PassStarted == gather # "none"

\* _summarize_multiple_chunks has built its list of blocks.
Merged == pc = "refine" \/ refined # << >>

\* C1: block i of the merged output is built from the completion of the call
\* issued for chunk i, whatever the order in which the completions arrived.
C1_BlocksFollowChunkOrder ==
    Merged =>
        /\ Len(chunk_summaries) = chunks
        /\ \A i \in 1..chunks :
              \E k \in DOMAIN arrival, j \in DOMAIN calls :
                 /\ calls[j].kind = "chunk"
                 /\ calls[j].chunk = i
                 /\ arrival[k].chunk = i
                 /\ chunk_summaries[i] =
                        Join("\n", arrival[k].completion.summary.l) \o "\n"

\* C1 witness: two chunks, distinct completions, the second chunk's arrived first.
C1_Witness ==
    /\ Merged
    /\ chunks = 2
    /\ arrival[1].chunk = 2
    /\ arrival[2].chunk = 1
    /\ arrival[1].completion # arrival[2].completion

\* The whitespace-separated tokens of s, counted by where each begins.
WhitespaceTokens(s) ==
    Cardinality({ i \in 1..Len(s) :
                    /\ ~IsSpace(Ch(s, i))
                    /\ (i = 1 \/ IsSpace(Ch(s, i - 1))) })

\* C2: a returned word_count is the number of whitespace-separated tokens of
\* the returned summary, and that summary is the string the refinement
\* completion carried under `summary`.
C2_WordCountOfRefinedText ==
    outcome.st = "returned" =>
        /\ refined # << >>
        /\ refined[1].summary.t = "str"
        /\ outcome.summary = refined[1].summary.s
        /\ outcome.word_count = WhitespaceTokens(outcome.summary)

\* C2 witness: a returned summary with runs of blanks and line breaks.
C2_Witness ==
    /\ outcome.st = "returned"
    /\ outcome.summary = " p\n\nq  r "
    /\ outcome.word_count = 3
    /\ outcome.summary # Concat(chunk_summaries)

\* A chunk call that fails: the client raises, the content is not JSON, or a
\* key is missing.
ChunkCallFailed(c) ==
    \/ c.raises
    \/ ~c.json
    \/ ~({"title", "summary"} \subseteq c.keys)

\* C3: once a chunk call of the pass has failed, no refinement call is
\* issued and no (summary, word_count) is returned; the call ends raised.
C3_FailedChunkFailsCall ==
    (\E k \in DOMAIN arrival : ChunkCallFailed(arrival[k].completion)) =>
        /\ \A j \in DOMAIN calls : calls[j].kind # "refine"
        /\ outcome.st # "returned"
        /\ pc = "done" => outcome.st = "raised"

\* C3 witness: of two chunk calls one failed and one succeeded, and the call
\* has ended.
C3_Witness ==
    /\ pc = "done"
    /\ outcome.st = "raised"
    /\ \E k \in DOMAIN arrival : ChunkCallFailed(arrival[k].completion)
    /\ \E k \in DOMAIN arrival : ~ChunkCallFailed(arrival[k].completion)

\* C4: every completion call of the summarization call carries, after its
\* base system prompt, the directive for the language fixed at the entry.
C4_OneLanguageDirective ==
    \A k \in DOMAIN calls :
        /\ lang # << >>
        /\ calls[k].system =
              (IF calls[k].kind = "chunk" THEN CHUNK_SYS_PROMPT ELSE SYS_PROMPT)
                 \o " Always return the output in " \o lang[1] \o "."

\* C4 witness: two chunk calls and the refinement call, in Czech.
C4_Witness ==
    /\ Len(calls) = 3
    /\ calls[3].kind = "refine"
    /\ lang = << "Czech" >>

\* C5: the detector's result is one of English, Czech, Slovak; ENGLISH, CZECH
\* and SLOVAK pass through as their language and anything else is English.
C5_DetectorResultSupported ==
    PastEntry =>
        /\ lang[1] \in {"English", "Czech", "Slovak"}
        /\ detected.language = "ENGLISH" => lang[1] = "English"
        /\ detected.language = "CZECH" => lang[1] = "Czech"
        /\ detected.language = "SLOVAK" => lang[1] = "Slovak"
        /\ detected.language \notin {"ENGLISH", "CZECH", "SLOVAK"} => lang[1] = "English"

\* C6: when the language-identification model raises, detect_language_lingua
\* returns "English" and the summarization call goes on to its chunk pass.
C6_DetectionNeverFails ==
    detected.language = "raise" =>
        /\ lang = << "English" >>
        /\ pc # "detail_level"
        /\ pc = "done" => PassStarted

\* C6 witness: the detector raised and the call returned a summary.
C6_Witness ==
    /\ detected.language = "raise"
    /\ outcome.st = "returned"

CaseInsensitiveEq(a, b) ==
    /\ Len(a) = Len(b)
    /\ \A i \in 1..Len(a) : UpperCh(Ch(a, i)) = UpperCh(Ch(b, i))

KnownLevels == {"concise", "medium", "detailed"}

\* C7: the level string is matched case-insensitively against the known
\* levels; a string that matches none resolves to MEDIUM, and the call goes on.
C7_LevelResolution ==
    (pc \in {"summarize_multiple_chunks", "gather", "refine", "done"}) =>
        /\ summ_level_enum \in SummarizationLevelEnum
        /\ \A m \in KnownLevels :
              CaseInsensitiveEq(summarization_level, m) =>
                  CaseInsensitiveEq(summ_level_enum, m)
        /\ (\A m \in KnownLevels : ~CaseInsensitiveEq(summarization_level, m)) =>
              summ_level_enum = "MEDIUM"
        /\ pc = "done" => PassStarted

\* C7 witness: an unknown level string, resolved to MEDIUM, and a returned call.
C7_Witness ==
    /\ summarization_level = "brief"
    /\ summ_level_enum = "MEDIUM"
    /\ outcome.st = "returned"

\* C8: the word-count entry point derives concise for N <= 50, medium for
\* 50 < N <= 150 and detailed otherwise (N = 100 when omitted), builds
\* "Create a summary with approximately N words.", delegates with exactly that
\* level and instruction, and returns the delegate's result unchanged.
C8_WordCountDelegation ==
    (op = "summarize_text_with_word_count" /\ pc # "word_count") =>
        /\ num_words <= 50 => summarization_level = "concise"
        /\ (50 < num_words /\ num_words <= 150) => summarization_level = "medium"
        /\ 150 < num_words => summarization_level = "detailed"
        /\ further_instruction =
              << "Create a summary with approximately " \o ToString(num_words) \o " words." >>
        /\ num_words = 30 =>
              further_instruction = << "Create a summary with approximately 30 words." >>
        /\ pc # "detail_level" =>
              /\ instruction = further_instruction[1]
              /\ CaseInsensitiveEq(summ_level_enum, summarization_level)
        /\ \A j \in DOMAIN calls :
              calls[j].kind = "refine" =>
                  calls[j].further_instruction = further_instruction[1]
        /\ outcome = detail_result

\* C8 witness: a boundary word count, delegated and returned.
C8_Witness ==
    /\ op = "summarize_text_with_word_count"
    /\ num_words = 50
    /\ summarization_level = "concise"
    /\ outcome.st = "returned"

\* C9: the chunk budget of the initial pass is 512 for a token length under
\* 2048, 1024 from 2048 to 4095, and 2048 from 4096 on.
C9_BudgetTiers ==
    PassStarted =>
        /\ tokLen < 2048 => max_token_per_chunk = 512
        /\ (2048 <= tokLen /\ tokLen <= 4095) => max_token_per_chunk = 1024
        /\ 4096 <= tokLen => max_token_per_chunk = 2048

\* C9 witness: a text at a tier's lower edge.
C9_Witness ==
    /\ PassStarted
    /\ tokLen = 2048
    /\ max_token_per_chunk = 1024

BulletTable ==
    { << 512, "CONCISE", 3 >>, << 512, "MEDIUM", 4 >>, << 512, "DETAILED", 5 >>,
      << 1024, "CONCISE", 4 >>, << 1024, "MEDIUM", 6 >>, << 1024, "DETAILED", 8 >>,
      << 2048, "CONCISE", 4 >>, << 2048, "MEDIUM", 8 >>, << 2048, "DETAILED", 12 >> }

\* C10: the bullet target is the table's value for (budget, level), and every
\* chunk call of the pass is given that target.
C10_BulletTarget ==
    PassStarted =>
        /\ << max_token_per_chunk, summ_level_enum, bullet_num >> \in BulletTable
        /\ \A j \in DOMAIN calls :
              calls[j].kind = "chunk" => calls[j].bullet_num = bullet_num

\* C10 witness: two chunk calls at budget 2048, level DETAILED, each given 12.
C10_Witness ==
    /\ max_token_per_chunk = 2048
    /\ summ_level_enum = "DETAILED"
    /\ Len(calls) >= 2
    /\ calls[1].bullet_num = 12
    /\ calls[2].kind = "chunk"
    /\ calls[2].bullet_num = 12

\* The completion c is a JSON object without the key k.
LacksKey(c, k) == ~c.raises /\ c.json /\ k \notin c.keys

\* C11: when the refinement completion is a JSON object without the key
\* summary, the call ends raised: the caller gets no summary, neither the
\* merged bullet text nor any other text.
C11_RefineWithoutSummaryFails ==
    (refined # << >> /\ LacksKey(refined[1], "summary")) =>
        /\ pc = "done"
        /\ outcome.st = "raised"
        /\ outcome.exc = "KeyError"
        /\ outcome.summary = ""
        /\ detail_result.st = "raised"

\* C11 witness: the bullets were merged, the refinement answered without the
\* key, and the call ended raised.
C11_Witness ==
    /\ refined # << >>
    /\ LacksKey(refined[1], "summary")
    /\ merged_summary # ""
    /\ outcome.st = "raised"

\* The completion c violates the chunk protocol: its content is not JSON, or
\* its JSON object lacks title or summary.
ChunkProtocolViolation(c) ==
    ~c.raises /\ (~c.json \/ ~({"title", "summary"} \subseteq c.keys))

\* C12: a chunk completion that is not JSON or lacks title or summary leaves
\* its task raised, with one call issued for the chunk and no other; no
\* refinement call follows, and the enclosing call ends raised.
C12_ChunkProtocolViolationFails ==
    \A k \in DOMAIN arrival :
        ChunkProtocolViolation(arrival[k].completion) =>
            /\ tasks[arrival[k].chunk].st = "raised"
            /\ tasks[arrival[k].chunk].exc \in {"JSONDecodeError", "KeyError"}
            /\ Cardinality(ChunkCallsFor(arrival[k].chunk)) = 1
            /\ \A j \in DOMAIN calls : calls[j].kind # "refine"
            /\ outcome.st # "returned"
            /\ pc = "done" => outcome.st = "raised"

\* C12 witness: the only chunk's completion lacks the title, and the call
\* ended raised on it.
C12_Witness ==
    /\ chunks = 1
    /\ Len(arrival) = 1
    /\ LacksKey(arrival[1].completion, "title")
    /\ "summary" \in arrival[1].completion.keys
    /\ pc = "done"
    /\ outcome = Raised("KeyError")

\* The pass (_summarize_multiple_chunks) has left its await of the gather.
PassEnded == PassStarted /\ pc # "gather"

TaskDone(i) == tasks[i].st \in {"returned", "raised"}

\* C13 as stated: the pass neither returns nor fails before every launched
\* task has completed.
C13_AllTasksAwaited ==
    PassEnded => \A i \in DOMAIN tasks : TaskDone(i)

\* C13 amended: the pass returns only once every launched task has returned;
\* it fails once one task has failed, whether or not the others are still
\* pending, and a task left pending can still complete afterwards.
C13_ReturnsAfterAllFailsAtFirst ==
    /\ PassEnded => gather \in {"result", "exception"}
    /\ (PassEnded /\ gather = "result") =>
           \A i \in DOMAIN tasks : tasks[i].st = "returned"
    /\ (PassEnded /\ gather = "exception") =>
           /\ \E i \in DOMAIN tasks : tasks[i].st = "raised"
           /\ pc = "done"
           /\ outcome.st = "raised"
           /\ \A i \in DOMAIN tasks :
                 tasks[i].st = "awaiting" =>
                     ENABLED CompleteChunk(i, GoodChunkCompletion)

\* C13 witness: the pass failed to its caller on one task's failure while
\* the other task was still awaiting its completion.
C13_Witness ==
    /\ pc = "done"
    /\ outcome.st = "raised"
    /\ chunks = 2
    /\ \E i \in DOMAIN tasks : tasks[i].st = "raised"
    /\ \E i \in DOMAIN tasks : tasks[i].st = "awaiting"

\* The refinement completion calls issued.
RefineCalls == { j \in DOMAIN calls : calls[j].kind = "refine" }

\* C14: at most one completion call is issued per chunk and at most one
\* refinement call, whatever the completions were; a call that returned a
\* result issued one call for each of its N chunks and one refinement call.
C14_NoCallRetried ==
    /\ \A j \in DOMAIN calls :
          calls[j].kind = "chunk" => calls[j].chunk \in 1..chunks
    /\ \A i \in 1..chunks : Cardinality(ChunkCallsFor(i)) <= 1
    /\ Cardinality(RefineCalls) <= 1
    /\ outcome.st = "returned" =>
          /\ \A i \in 1..chunks : Cardinality(ChunkCallsFor(i)) = 1
          /\ Cardinality(RefineCalls) = 1
          /\ Len(calls) = chunks + 1

\* C14 witness: a chunk call failed, the other succeeded, and the call ended
\* with one call issued per chunk.
C14_Witness ==
    /\ pc = "done"
    /\ chunks = 2
    /\ Len(arrival) = 2
    /\ \E k \in DOMAIN arrival : ChunkCallFailed(arrival[k].completion)
    /\ Len(calls) = 2

\* The chunk calls in flight: issued and not yet completed.
InFlight == { i \in DOMAIN tasks : tasks[i].st = "awaiting" }

\* C15: the next chunk call can be issued whatever the calls before it have
\* done (none has to complete first), and each call in flight can be the next
\* to complete, whatever the others are doing.
C15_ChunkCallsIndependent ==
    \A i \in DOMAIN tasks :
        /\ (tasks[i].st = "scheduled" /\ \A j \in 1..(i - 1) : j \in InFlight) =>
               ENABLED StartChunkTask(i)
        /\ i \in InFlight =>
               \A c \in ChunkCompletionsIn(world) : ENABLED CompleteChunk(i, c)

\* C15 witness: every call of a pass over two chunks is in flight at once,
\* none completed.
C15_Witness ==
    /\ chunks = 2
    /\ InFlight = 1..chunks
    /\ arrival = << >>
    /\ Len(calls) = chunks

\* The text the caller gave the entry point.
CallerText == IF op = "summarize_text_with_word_count" THEN wc_text ELSE arg_text

\* The entry point has normalized its text.
Normalized == pc \notin {"word_count", "detail_level"}

\* C16: on every text the normalizer was given, the bold/italic substitution
\* applied to its own output changes nothing.
C16_StripEmphasisIdempotent ==
    Normalized =>
        StripEmphasis(StripEmphasis(CallerText)) = StripEmphasis(CallerText)

\* C17: the detector is invoked once in a call, neither before the text is
\* normalized nor again after, and what it is given is the first
\* min(len, 1000) characters of the normalized text.
C17_DetectorOncePerCall ==
    /\ ~Normalized => detector_calls = << >>
    /\ Normalized =>
          /\ Len(detector_calls) = 1
          /\ Len(text) <= 1000 => detector_calls[1] = text
          /\ Len(text) > 1000 =>
                /\ Len(detector_calls[1]) = 1000
                /\ detector_calls[1] = SubSeq(text, 1, 1000)
          /\ arg_text = "***a*** b" => detector_calls[1] = "*a* b"
          /\ arg_text = LongText => detector_calls[1] = "a " \o Repeat("b", 998)

\* C17 witness: a call on a normalized text of more than 1000 characters has
\* ended, its detector given the first 1000.
C17_Witness ==
    /\ pc = "done"
    /\ Len(text) > 1000
    /\ Len(detector_calls) = 1
    /\ Len(detector_calls[1]) = 1000

\* The refinement completion c fails the refiner: the client raised, the
\* content is not JSON, the key is absent, or its value is not a string.
RefineCallFailed(c) ==
    \/ c.raises
    \/ ~c.json
    \/ "summary" \notin c.keys
    \/ c.summary.t # "str"

\* A failure has occurred inside the core.
CoreFailed ==
    \/ \E k \in DOMAIN arrival : ChunkCallFailed(arrival[k].completion)
    \/ refined # << >> /\ RefineCallFailed(refined[1])

StartsWith(s, prefix) ==
    Len(s) >= Len(prefix) /\ SubSeq(s, 1, Len(prefix)) = prefix

\* C18: a call in which a chunk call or the refinement failed ends with an
\* exception at the entry point's caller, never with a returned pair or a
\* formatted text; an MCP tool that made the call then returns a string
\* beginning with "Error: " and does not raise.
C18_FailuresRaiseToolFormats ==
    /\ (CoreFailed /\ pc = "done") =>
          /\ outcome.st = "raised"
          /\ outcome.exc \in {"ClientError", "JSONDecodeError", "KeyError",
                               "TypeError", "AttributeError"}
          /\ outcome.summary = ""
    /\ tool_pc = "returned" =>
          /\ Len(tool_result) = 1
          /\ tool_result[1].exc = ""
          /\ outcome.st = "raised" =>
                tool_result[1].value = "Error: " \o outcome.exc
          /\ StartsWith(tool_result[1].value, "Error: ") <=>
                outcome.st # "returned"
    /\ tool_pc # "returned" => tool_result = << >>

\* C18 witness: the refinement's content was not JSON, the entry point
\* raised to the tool, and the tool returned the error string.
C18_Witness ==
    /\ tool_pc = "returned"
    /\ refined # << >>
    /\ ~refined[1].raises /\ ~refined[1].json
    /\ outcome = Raised("JSONDecodeError")
    /\ tool_result = << Value("Error: JSONDecodeError") >>

\* C19: the detector runs on normalized text; completion calls are issued
\* only after the detection; the refinement call is the last call issued and
\* is issued only when every chunk call of the pass has completed and none
\* failed; the word count of a returned pair is that of the text the
\* refinement call returned.
C19_StepOrder ==
    /\ detector_calls # << >> => Normalized
    /\ calls # << >> => (Len(detector_calls) = 1 /\ PassStarted)
    /\ \A j \in RefineCalls :
          /\ j = Len(calls)
          /\ Cardinality({ m \in 1..(j - 1) : calls[m].kind = "chunk" }) = chunks
          /\ Len(arrival) = chunks
          /\ \A i \in DOMAIN tasks : tasks[i].st = "returned"
          /\ \A k \in DOMAIN arrival : ~ChunkCallFailed(arrival[k].completion)
    /\ refined # << >> => RefineCalls # {}
    /\ outcome.st = "returned" =>
          /\ refined # << >>
          /\ ~RefineCallFailed(refined[1])
          /\ outcome.word_count = WhitespaceTokens(refined[1].summary.s)

\* C19 witness: a returned call over two chunks whose refined text has fewer
\* words than the merged bullets.
C19_Witness ==
    /\ outcome.st = "returned"
    /\ chunks = 2
    /\ Len(calls) = 3
    /\ calls[3].kind = "refine"
    /\ outcome.word_count = 2
    /\ WhitespaceTokens(merged_summaries) > 2

\* The completion that arrived for chunk i.
CompletionOf(i) ==
    arrival[CHOOSE k \in DOMAIN arrival : arrival[k].chunk = i].completion

\* The bullets of chunks i, i + 1, ... in chunk order, each chunk's bullets
\* separated by line breaks and followed by end.
RECURSIVE BlocksFrom(_, _)
BlocksFrom(i, end) ==
    IF i > chunks THEN ""
    ELSE Join("\n", CompletionOf(i).summary.l) \o end \o BlocksFrom(i + 1, end)

Contains(s, sub) ==
    \E p \in 1..(Len(s) - Len(sub) + 1) : SubSeq(s, p, p + Len(sub) - 1) = sub

\* C20 as stated: each chunk's block is its bullets joined by line breaks and
\* followed by a blank line.
C20_BlocksEndWithBlankLine ==
    Merged => merged_summaries = BlocksFrom(1, "\n\n")

\* C20 amended: the merged summary is, in chunk order and with nothing in
\* between, each chunk's bullets joined by single line breaks and followed
\* by one line break; no chunk title occurs in it.
C20_MergedSummaryBlocks ==
    Merged =>
        /\ merged_summaries = BlocksFrom(1, "\n")
        /\ \A i \in 1..chunks : ~Contains(merged_summaries, CompletionOf(i).title.s)
        /\ (chunks = 2 /\ CompletionOf(1).summary.l = << "a b", "c" >>
                       /\ CompletionOf(2).summary.l = << "d" >>) =>
               merged_summaries = "a b\nc\nd\n"

\* C20 witness: two chunks with different bullets, merged in chunk order
\* although the second chunk's completion arrived first.
C20_Witness ==
    /\ Merged
    /\ chunks = 2
    /\ arrival[1].chunk = 2
    /\ merged_summaries = "a b\nc\nd\n"

\* C21 as stated: where the caller's text has a horizontal-rule line between
\* two paragraphs, the first ending with a full stop, the normalized text
\* keeps a blank line after that full stop.
C21_RuleBecomesBlankLine ==
    (Normalized /\ Contains(CallerText, "." \o RulePattern)) =>
        Contains(text, ".\n\n")

\* The chunks cs joined with blank lines, for up to two chunks.
BlankLineJoined(cs) ==
    IF Len(cs) = 0 THEN ""
    ELSE IF Len(cs) = 1 THEN cs[1]
    ELSE cs[1] \o "\n\n" \o cs[2]

\* C22: the merged summary is re-chunked with the budget 400 whatever its
\* length and whatever the budget of the chunk pass; the one refinement call
\* embeds the chunks of that re-chunking joined with blank lines, and no
\* call is issued for a chunk of the re-chunking.
C22_RechunkThenRejoinOnly ==
    Merged =>
        /\ Len(chunk_text_calls) = 2
        /\ chunk_text_calls[2].text = merged_summaries
        /\ chunk_text_calls[2].max_token_chars = 400
        /\ Len(chunk_text_calls[2].chunks) <= 2
        /\ Cardinality(RefineCalls) = 1
        /\ \A k \in RefineCalls :
              calls[k].merged_summaries = BlankLineJoined(chunk_text_calls[2].chunks)
        /\ Len(calls) = chunks + 1

\* C22 witness: the re-chunking gave two chunks, in a pass whose own budget
\* was 2048, and the refinement call was issued.
C22_Witness ==
    /\ pc = "refine"
    /\ max_token_per_chunk = 2048
    /\ Len(chunk_text_calls) = 2
    /\ Len(chunk_text_calls[2].chunks) = 2

\* C23: the refinement call embeds the caller's further instruction as it
\* is, the empty string when the caller passed None, and no chunk call
\* embeds an instruction.
C23_InstructionOnlyInRefinement ==
    \A k \in DOMAIN calls :
        /\ calls[k].kind = "chunk" => calls[k].further_instruction = ""
        /\ calls[k].kind = "refine" =>
              /\ further_instruction = << >> => calls[k].further_instruction = ""
              /\ further_instruction # << >> =>
                    calls[k].further_instruction = further_instruction[1]

\* C23 witness: a direct call without further instruction has issued its
\* chunk calls and its refinement call.
C23_Witness ==
    /\ op = "summarize_text_with_detail_level"
    /\ further_instruction = << >>
    /\ chunks = 2
    /\ RefineCalls # {}

\* C24: a step of a chunk-summarization task changes its own task only, and
\* leaves the prompt mapping, the language, the bullet target, the budget and
\* what the pass has collected as they were.
C24_TasksWriteOnlyOwnResult ==
    [][ (tasks # << >> /\ tasks' # tasks) =>
           /\ \E i \in DOMAIN tasks :
                 /\ DOMAIN tasks' = DOMAIN tasks
                 /\ \A j \in DOMAIN tasks : j # i => tasks'[j] = tasks[j]
           /\ UNCHANGED << PROMPT_MAPPING, lang, bullet_num, max_token_per_chunk,
                           summ_level_enum, text, chunks, instruction,
                           chunk_summaries, merged_summaries, chunk_text_calls >>
      ]_vars

\* C24 witness: both tasks of a pass have returned and the prompt mapping is
\* the one the object was built with.
C24_Witness ==
    /\ chunks = 2
    /\ \A i \in DOMAIN tasks : tasks[i].st = "returned"
    /\ PROMPT_MAPPING = PromptMapping

EndsWith(s, suffix) ==
    /\ Len(s) >= Len(suffix)
    /\ SubSeq(s, Len(s) - Len(suffix) + 1, Len(s)) = suffix

\* C25: once the entry point has detected the language it is a string, never
\* None, English for a document outside the supported set, and every
\* completion call's system prompt ends with the directive for it.
C25_LanguageNeverNone ==
    /\ Normalized =>
          /\ lang # << >>
          /\ lang[1] \in {"English", "Czech", "Slovakia"}
          /\ detected.language \notin {"ENGLISH", "CZECH", "SLOVAK"} =>
                lang[1] = "English"
          /\ detail_result.exc # "ValueError"
    /\ \A k \in DOMAIN calls :
          /\ lang # << >>
          /\ StartsWith(calls[k].system,
                        IF calls[k].kind = "chunk" THEN CHUNK_SYS_PROMPT ELSE SYS_PROMPT)
          /\ EndsWith(calls[k].system, " Always return the output in " \o lang[1] \o ".")

\* C25 witness: a document in an unsupported language has its chunk and
\* refinement calls issued with the English directive.
C25_Witness ==
    /\ detected.language = "GERMAN"
    /\ chunks = 1
    /\ Len(calls) = 2
    /\ lang = << "English" >>

\* C26 as stated: through the word-count entry point the text that reaches
\* the detector and the orchestrator is the text a direct detail-level call
\* on the caller's text has: the caller's text normalized once.
C26_WordCountEntrySameText ==
    (op = "summarize_text_with_word_count" /\ Normalized) =>
        /\ text = process_markdown_string(wc_text)
        /\ detector_calls = << TextSample(process_markdown_string(wc_text)) >>

\* C27: when the chunker yields no chunk, the gather resolves at once, no
\* chunk call is issued, the merged summary is empty, one refinement call is
\* issued with an empty body, and the call returns or raises as that
\* refinement does.
C27_ZeroChunks ==
    (PassStarted /\ chunks = 0) =>
        /\ gather = "result"
        /\ \A k \in DOMAIN calls : calls[k].kind # "chunk"
        /\ Merged =>
              /\ merged_summaries = ""
              /\ Len(calls) = 1
              /\ calls[1].kind = "refine"
              /\ calls[1].merged_summaries = ""
        /\ pc = "done" =>
              /\ refined # << >>
              /\ ~RefineCallFailed(refined[1]) =>
                    /\ detail_result.st = "returned"
                    /\ detail_result.summary = refined[1].summary.s
              /\ RefineCallFailed(refined[1]) => detail_result.st = "raised"

\* C27 witness: a call on the empty text has returned the refinement of an
\* empty body.
C27_Witness ==
    /\ PassStarted
    /\ chunks = 0
    /\ pc = "done"
    /\ Len(calls) = 1
    /\ outcome.st = "returned"

\* A terminal event of a stream: the final event or the error event of the
\* generator, not a chunk taken from the queue.
Terminal(e) == e.type \in {"final", "error"} /\ ~e.chunk

TerminalEvents(r) == { k \in DOMAIN events[r] : Terminal(events[r][k]) }

\* C28 as stated: a stream that has ended has emitted exactly one terminal
\* event, final or error, and that event is its last, also when another
\* request streams on the same streamer.
C28_StreamEndsWithOneTerminal ==
    \A r \in Requests :
        stream_pc[r] = "ended" =>
            /\ events[r] # << >>
            /\ Terminal(events[r][Len(events[r])])
            /\ Cardinality(TerminalEvents(r)) = 1

\* C29 as stated: with two requests streaming on one streamer, a chunk is
\* emitted on the stream of the request whose agent run enqueued it only,
\* and once both streams have ended the queue is empty.
C29_ChunksReachOwnStream ==
    (\A r \in Requests : stream_pc[r] # "none") =>
        /\ \A r \in Requests : \A k \in DOMAIN events[r] : events[r][k].of = r
        /\ (\A r \in Requests : stream_pc[r] = "ended") => queue = << >>

\* The saves made for the session of request r.
SavesOf(r) == { k \in DOMAIN saved : saved[k].session_id = r }

\* C30 as stated: the conversation of a request is saved once, when its
\* final event is reached and not before, and what is saved is the
\* request's message with the concatenation of the content the callback
\* streamed for that request.
C30_SavedOnceWithStreamedResponse ==
    \A r \in Requests :
        /\ Cardinality(SavesOf(r)) <= 1
        /\ SavesOf(r) # {} <=>
              \E k \in DOMAIN events[r] :
                  events[r][k].type = "final" /\ ~events[r][k].chunk
        /\ \A k \in SavesOf(r) :
              /\ saved[k].user_message = Message(r)
              /\ saved[k].agent_response = agent_task[r].streamed

====
